---- MODULE Spec2Model ----
(***************************************************************************)
(* garden-sea: the self-extracting launcher of garden.                     *)
(*                                                                         *)
(* Spec      : several launcher instances sharing one extraction root      *)
(*             (extract.rs, cleanup.rs, the spawn/exit steps of main.rs).  *)
(* SpecRelay : one launcher after spawn_garden: wait, the signal relay of  *)
(*             both platform variants, and main's exit code                *)
(*             (node.rs, signal.rs, terminate.rs, main.rs).                *)
(* SpecSweep, SpecFaulty : the cleanup thread on its own, without and with *)
(*             failures of the detection and of the removal (cleanup.rs).  *)
(* SpecSolo  : one launch on a root with other entries and with failures   *)
(*             of the root and of the extraction (extract.rs, main.rs).    *)
(* SpecConsole : the console control handler of the windows variant and    *)
(*             its bounded channel (signal.rs).                            *)
(***************************************************************************)
EXTENDS Integers, Sequences, FiniteSets, TLC

(***************************************************************************)
(* Bounds of the model.                                                    *)
(***************************************************************************)
\* launcher processes that may run at the same time
NumProcs == 2
\* launches started in one behaviour (a process slot is reused after exit)
MaxLaunches == 3
\* last value of the wall clock, in seconds since the epoch
ClockMax == 2
\* distinct random suffixes thread_rng may produce
NumSuffixes == 2

Procs == 1..NumProcs

(***************************************************************************)
(* artifacts.rs                                                            *)
(***************************************************************************)
NODE_BINARY == "bin"
NATIVE_MODULES == "native"
STATIC == "static"
SOURCE == "source"

\* the order in which extract.rs checks and extracts the artifacts
ArtifactSeq == <<NODE_BINARY, NATIVE_MODULES, STATIC, SOURCE>>
Artifacts == {ArtifactSeq[i] : i \in 1..Len(ArtifactSeq)}

\* artifact.sha256: the digest compiled in for an artifact
Sha256(a) == <<"sha256", a>>

\* contents of a checksum file: absent, present but unreadable, bytes that
\* are no digest of this build, or the digest of an artifact
Missing == <<"missing">>
Unreadable == <<"unreadable">>
Garbage == <<"garbage">>
MarkerVals == {Missing, Unreadable, Garbage} \cup {Sha256(a) : a \in Artifacts}

(***************************************************************************)
(* Directory names: format!("{}-{}.r", secs, s), compared as PathBuf does, *)
(* byte by byte.                                                           *)
(***************************************************************************)
None == [secs |-> -1, rnd |-> 0]
Names == [secs : 0..ClockMax, rnd : 1..NumSuffixes]

\* the pre-existing generation of the initial states
OldDir == [secs |-> 0, rnd |-> 1]

RECURSIVE Digits(_)
\* decimal digits of n as character codes ('0' = 48), no padding
Digits(n) == IF n < 10 THEN <<48 + n>> ELSE Digits(n \div 10) \o <<48 + (n % 10)>>

\* the random suffix: seven alphanumeric characters ('A' = 65)
SuffixLen == 7
Suffix(r) == [i \in 1..SuffixLen |-> 64 + r]

\* "<secs>-<suffix>.r"
DirName(n) == Digits(n.secs) \o <<45>> \o Suffix(n.rnd) \o <<46, 114>>

\* Entries that are no generation directory: in the root a plain file whose
\* name carries the tag, a plain file that has the name of a generation, a
\* directory and a plain file without the tag; outside the root a directory
\* whose name carries the tag.
OtherEntries ==
    { [name |-> <<120, 46, 114>>, is_dir |-> FALSE, in_root |-> TRUE],
      [name |-> DirName([secs |-> 1, rnd |-> 1]), is_dir |-> FALSE, in_root |-> TRUE],
      [name |-> <<108, 111, 103, 115>>, is_dir |-> TRUE, in_root |-> TRUE],
      [name |-> <<110, 46, 116, 120, 116>>, is_dir |-> FALSE, in_root |-> TRUE],
      [name |-> <<57, 45, 122, 46, 114>>, is_dir |-> TRUE, in_root |-> FALSE] }

\* path.file_name() of an entry
FileName(e) == IF e \in Names THEN DirName(e) ELSE e.name

\* path.is_dir()
is_dir(e) == IF e \in Names THEN TRUE ELSE e.is_dir

\* path.extension(): what follows the last '.' of the file name, nothing when
\* there is no '.' after the first character
extension(name) ==
    LET dots == {i \in 2..Len(name) : name[i] = 46}
    IN  IF dots = {} THEN <<>>
        ELSE LET last == CHOOSE i \in dots : \A j \in dots : j <= i
             IN  SubSeq(name, last + 1, Len(name))

\* the tag of a generation directory: ext == "r"
GenerationTag == <<114>>

RECURSIVE LexLess(_, _)
\* byte-wise lexicographic order of two strings
LexLess(s, t) ==
    IF t = <<>> THEN FALSE
    ELSE IF s = <<>> THEN TRUE
    ELSE IF Head(s) # Head(t) THEN Head(s) < Head(t)
    ELSE LexLess(Tail(s), Tail(t))

PathLess(m, n) == LexLess(FileName(m), FileName(n))

RECURSIVE SortDirs(_)
\* directories.sort(): ascending by path
SortDirs(S) ==
    IF S = {} THEN <<>>
    ELSE LET least == CHOOSE m \in S : \A n \in S \ {m} : PathLess(m, n)
         IN  <<least>> \o SortDirs(S \ {least})

Range(s) == {s[i] : i \in 1..Len(s)}

IsPrefix(s, t) == Len(s) <= Len(t) /\ SubSeq(t, 1, Len(s)) = s

(***************************************************************************)
(* State.                                                                  *)
(***************************************************************************)
VARIABLES
    now,          \* SystemTime::now(), seconds since the epoch
    present,      \* the generation directories that exist in the root
    files,        \* files[d]: artifacts whose archive is unpacked in d
    marker,       \* marker[d][a]: contents of d/<a>.sha256sum
    launches,     \* launches started so far
    emptyStart,   \* history: the root was empty in the initial state
    proc,         \* proc[p]: the launcher process in slot p (ProcInit)
    relay,        \* one launcher after spawn (SpecRelay)
    others        \* entries that are no generation directory (OtherEntries)

vars == <<now, present, files, marker, launches, emptyStart, proc, relay,
          others>>

\* A process slot before its launch. The fields of the main thread:
\*   pc            position in main / extract_archives_if_needed
\*   latest_dir    of find_existing_extract_dirs (None: Option::None)
\*   older_dirs    of find_existing_extract_dirs, until moved into the thread
\*   idx           the artifact the check or the extraction is at
\*   extract_path  the generated directory name
\*   current_dir   the directory extract_archives_if_needed returned
\*   err           why the launch failed
\* of its cleanup thread:
\*   cleanup       position; cleanup_dirs, sidx: the list and the loop index
\* and history, read by the properties only:
\*   interfered    directories another instance removed or wrote between this
\*                 launch's listing and its spawn
\*   removed       directories this launch's cleanup thread removed
\*   usedAtCheck   a child ran from the directory when is_directory_used ran
\*   lastListed    the lexicographically last directory of the root when listed
\*   listedValid   that directory held four valid markers when it was listed
\*   skipped       directories the cleanup thread found in use and passed over
\*   sawFinished   a listing of this launch saw a fully extracted directory
\*   needed        extracts_needed returned true for latest_dir
\*   spawned       spawn_garden started a child in this launch
\*   undetected    directories for which is_directory_used returned an error
ProcInit ==
    [pc |-> "idle", latest_dir |-> None, older_dirs |-> <<>>, idx |-> 1,
     extract_path |-> None, current_dir |-> None, err |-> "none",
     cleanup |-> "off", cleanup_dirs |-> <<>>, sidx |-> 1,
     interfered |-> {}, removed |-> {}, usedAtCheck |-> FALSE,
     lastListed |-> None, listedValid |-> FALSE, skipped |-> {},
     sawFinished |-> FALSE, needed |-> FALSE, spawned |-> FALSE,
     undetected |-> {}]

NumArtifacts == Len(ArtifactSeq)

AllValid(d) == \A a \in Artifacts : marker[d][a] = Sha256(a)

\* the greatest name of a set of directories
LastDir(S) == IF S = {} THEN None ELSE CHOOSE m \in S : \A n \in S \ {m} : PathLess(n, m)

(***************************************************************************)
(* extract.rs, cleanup.rs: the pure parts.                                 *)
(***************************************************************************)
\* mutant: every entry of the root passes the filter
is_extract_dir_any(e) == TRUE

\* the filter of find_existing_extract_dirs: a directory with extension "r"
is_extract_dir(e) == is_dir(e) /\ extension(FileName(e)) = GenerationTag

\* fs::read_dir(root_path): the entries of the root
read_dir == present \cup {e \in others : e.in_root}

\* extract_path.exists(): some entry of the root has this name
exists(path) == \E e \in read_dir : FileName(e) = FileName(path)

\* mutant: nothing is popped, the latest directory stays in cleanup_dirs
find_existing_extract_dirs_no_pop(dirs) ==
    LET directories == SortDirs({e \in dirs : is_extract_dir(e)})
        n == Len(directories)
    IN  [latest_entry |-> IF n = 0 THEN None ELSE directories[n],
         cleanup_dirs |-> directories]

\* mutant: the first entry of the sorted list is taken as the latest
find_existing_extract_dirs_first(dirs) ==
    LET directories == SortDirs({e \in dirs : is_extract_dir(e)})
        n == Len(directories)
    IN  [latest_entry |-> IF n = 0 THEN None ELSE directories[1],
         cleanup_dirs |-> IF n = 0 THEN <<>> ELSE SubSeq(directories, 2, n)]

\* find_existing_extract_dirs: filter, sort, pop the last entry, the rest is
\* cleanup_dirs
find_existing_extract_dirs(dirs) ==
    LET directories == SortDirs({e \in dirs : is_extract_dir(e)})
        n == Len(directories)
    IN  [latest_entry |-> IF n = 0 THEN None ELSE directories[n],
         cleanup_dirs |-> IF n = 0 THEN <<>> ELSE SubSeq(directories, 1, n - 1)]

\* mutant: a readable checksum file is taken as a match, whatever it holds
is_extract_needed_exists_only(content, a) ==
    IF content = Missing THEN "true"
    ELSE IF content = Unreadable THEN "err"
    ELSE "false"

\* is_extract_needed on the contents of the checksum file:
\* "true", "false", or "err" when fs::read fails and `?` returns the error
is_extract_needed(content, a) ==
    IF content = Missing THEN "true"
    ELSE IF content = Unreadable THEN "err"
    ELSE IF content = Sha256(a) THEN "false"
    ELSE "true"

\* path components
RootPath == <<<<114, 111, 111, 116>>>>
DirPath(d) == RootPath \o <<FileName(d)>>
\* path.join("bin/node"), the image of the child spawn_garden starts
NodeExe(d) == DirPath(d) \o <<<<98, 105, 110>>, <<110, 111, 100, 101>>>>
\* the image of the launcher itself, outside the root
LauncherExe == <<<<103, 97, 114, 100, 101, 110>>>>

Alive(p) == proc[p].pc \notin {"idle", "done", "failed"}
ChildRunning(p) == proc[p].pc = "waiting"

\* sys.processes(): the executable of every running process
ProcessExes ==
    {NodeExe(proc[p].current_dir) : p \in {q \in Procs : ChildRunning(q)}}
        \cup {LauncherExe : p \in {q \in Procs : Alive(q)}}

\* mutant: the executable path is compared for equality with the directory
is_directory_used_exact(path, exes) == \E exe \in exes : exe = path

\* is_directory_used (unix): some process executable starts_with(path)
is_directory_used(path, exes) == \E exe \in exes : IsPrefix(path, exe)

\* mutant: the test against current_dir is left out
is_cleanup_target_always(dir, current_dir) == TRUE

\* the `dir != current_dir` test of start_cleanup_thread
is_cleanup_target(dir, current_dir) == dir # current_dir

(***************************************************************************)
(* Initial states: an empty root, or a root holding one generation that an *)
(* earlier launch extracted completely and in which at most one checksum   *)
(* file has since been deleted, overwritten or made unreadable.            *)
(***************************************************************************)
NoMarkers == [a \in Artifacts |-> Missing]
GoodMarkers == [a \in Artifacts |-> Sha256(a)]

InitRoots ==
    {[dirs |-> {}, m |-> NoMarkers]}
        \cup {[dirs |-> {OldDir}, m |-> GoodMarkers]}
        \cup {[dirs |-> {OldDir}, m |-> [GoodMarkers EXCEPT ![a] = v]] :
                a \in Artifacts, v \in {Missing, Garbage, Unreadable}}

RelayOff == [on |-> FALSE]

InitCache(r) ==
    /\ now = 1
    /\ present = r.dirs
    /\ files = [d \in Names |-> IF d \in r.dirs THEN Artifacts ELSE {}]
    /\ marker = [d \in Names |-> IF d \in r.dirs THEN r.m ELSE NoMarkers]
    /\ launches = 0
    /\ emptyStart = (r.dirs = {})
    /\ proc = [p \in Procs |-> ProcInit]
    /\ others = {}

Init ==
    /\ \E r \in InitRoots : InitCache(r)
    /\ relay = RelayOff

(***************************************************************************)
(* main.rs, extract.rs: the main thread of a launcher.                     *)
(***************************************************************************)
\* the other launches that are between listing the root and spawning
Selecting(q) == proc[q].pc \in {"check", "generate", "create", "extract", "returned"}

\* process p continues as `new`; `touched` are the directories the step wrote
\* or removed, recorded in the history of the other launches
Step(p, new, touched) ==
    proc' = [q \in Procs |->
               IF q = p THEN new
               ELSE IF Selecting(q)
               THEN [proc[q] EXCEPT !.interfered = @ \cup touched]
               ELSE proc[q]]

\* mutant: the error is recorded and the launch goes on
Ended_ignored(p, pc, err) == [proc[p] EXCEPT !.err = err]

\* the process ends: main returned an error or called exit, and every thread
\* of the process is gone
Ended(p, pc, err) ==
    [ProcInit EXCEPT !.pc = pc, !.err = err, !.spawned = proc[p].spawned]

\* a launcher process starts: main calls extract_archives_if_needed
Start(p) ==
    /\ ~Alive(p)
    /\ launches < MaxLaunches
    /\ launches' = launches + 1
    /\ Step(p, [ProcInit EXCEPT !.pc = "list"], {})
    /\ UNCHANGED <<now, present, files, marker, emptyStart, relay, others>>

\* extract.rs 15-19: create_dir_all(root), find_existing_extract_dirs, and the
\* `if let Some(p) = latest_dir`
List(p) ==
    /\ proc[p].pc = "list"
    /\ LET found == find_existing_extract_dirs(read_dir)
           l == found.latest_entry
       IN  Step(p, [proc[p] EXCEPT
                      !.pc = IF l = None THEN "generate" ELSE "check",
                      !.latest_dir = l,
                      !.older_dirs = found.cleanup_dirs,
                      !.idx = 1,
                      !.extract_path = None,
                      !.interfered = {},
                      !.needed = FALSE,
                      !.lastListed = LastDir(present),
                      !.listedValid = present # {} /\ AllValid(LastDir(present)),
                      !.sawFinished = @ \/ \E d \in present : AllValid(d)], {})
    /\ UNCHANGED <<now, present, files, marker, launches, emptyStart, relay, others>>

\* cleanup.rs 8-9: start_cleanup_thread moves its arguments into a new
\* thread; extract_archives_if_needed returns current_dir
Return(self, cleanup_dirs, current_dir) ==
    [self EXCEPT
       !.pc = "returned",
       !.current_dir = current_dir,
       !.older_dirs = <<>>,
       !.idx = 1,
       !.cleanup = IF cleanup_dirs = <<>> THEN "finished" ELSE "probe",
       !.cleanup_dirs = cleanup_dirs,
       !.sidx = 1]

\* extract.rs 20-25, 57-62, 97-123: one is_extract_needed of extracts_needed,
\* left to right with the short circuit of `||` and the early return of `?`
Check(p) ==
    /\ proc[p].pc = "check"
    /\ LET a == ArtifactSeq[proc[p].idx]
           res == is_extract_needed(marker[proc[p].latest_dir][a], a)
       IN  Step(p, IF res = "err" THEN Ended(p, "failed", "read_marker")
                   ELSE IF res = "true"
                   THEN [proc[p] EXCEPT !.pc = "generate", !.needed = TRUE, !.idx = 1]
                   ELSE IF proc[p].idx < NumArtifacts
                   THEN [proc[p] EXCEPT !.idx = @ + 1]
                   ELSE Return(proc[p], proc[p].older_dirs, proc[p].latest_dir), {})
    /\ UNCHANGED <<now, present, files, marker, launches, emptyStart, relay, others>>

\* extract.rs 28-42: the name from the clock and the random suffix, and the
\* exists() test that restarts the selection
Generate(p, r) ==
    /\ proc[p].pc = "generate"
    /\ LET extract_path == [secs |-> now, rnd |-> r]
       IN  Step(p, IF exists(extract_path)
                   THEN [proc[p] EXCEPT !.pc = "list"]
                   ELSE [proc[p] EXCEPT !.pc = "create", !.extract_path = extract_path],
                {})
    /\ UNCHANGED <<now, present, files, marker, launches, emptyStart, relay, others>>

\* extract.rs 44: fs::create_dir_all(extract_path), which succeeds on a
\* directory that exists
CreateDir(p) ==
    /\ proc[p].pc = "create"
    /\ present' = present \cup {proc[p].extract_path}
    /\ Step(p, [proc[p] EXCEPT !.pc = "extract", !.idx = 1], {})
    /\ UNCHANGED <<now, files, marker, launches, emptyStart, relay, others>>

\* extract.rs 46-54, 127-153: one extract_archive. unpack creates the target
\* directory when it is gone; an error of unpack or of File::create returns
\* through `?` and leaves no checksum file. After the fourth artifact:
\* start_cleanup_thread and Ok.
ExtractOutcomes == {"ok", "failed"}

Extract(p, outcome) ==
    /\ proc[p].pc = "extract"
    /\ LET d == proc[p].extract_path
           a == ArtifactSeq[proc[p].idx]
       IN  IF outcome = "failed"
           THEN /\ Step(p, Ended(p, "failed", "extract"), {})
                /\ UNCHANGED <<present, files, marker>>
           ELSE /\ present' = present \cup {d}
                /\ files' = [files EXCEPT ![d] = @ \cup {a}]
                /\ marker' = [marker EXCEPT ![d][a] = Sha256(a)]
                /\ Step(p, IF proc[p].idx < NumArtifacts
                           THEN [proc[p] EXCEPT !.idx = @ + 1]
                           ELSE Return(proc[p], proc[p].older_dirs, d), {d})
    /\ UNCHANGED <<now, launches, emptyStart, relay, others>>

\* extract.rs 15-17: fs::create_dir_all(root_path) or fs::read_dir fails and
\* `?` returns the error; main.rs 21 returns it
RootFails(p) ==
    /\ proc[p].pc = "list"
    /\ Step(p, Ended(p, "failed", "root"), {})
    /\ UNCHANGED <<now, present, files, marker, launches, emptyStart, relay, others>>

\* extract.rs 135-150: unpack succeeded, then File::create fails (the checksum
\* file stays as it was) or write_all fails (it holds no digest); `?` returns
\* the error
MarkerFails(p, written) ==
    /\ proc[p].pc = "extract"
    /\ LET d == proc[p].extract_path
           a == ArtifactSeq[proc[p].idx]
       IN  /\ present' = present \cup {d}
           /\ files' = [files EXCEPT ![d] = @ \cup {a}]
           /\ marker' = IF written THEN [marker EXCEPT ![d][a] = Garbage] ELSE marker
           /\ Step(p, Ended(p, "failed", "marker"), {d})
    /\ UNCHANGED <<now, launches, emptyStart, relay, others>>

\* main.rs 23-24, node.rs 17-108: spawn_garden. create_dir_all(path/v8cache)
\* brings back a removed directory, empty; Command::spawn needs bin/node.
Spawn(p) ==
    /\ proc[p].pc = "returned"
    /\ present' = present \cup {proc[p].current_dir}
    /\ Step(p, IF NODE_BINARY \in files[proc[p].current_dir]
               THEN [proc[p] EXCEPT !.pc = "waiting", !.spawned = TRUE,
                                    !.extract_path = None,
                                    !.interfered = {}, !.lastListed = None,
                                    !.listedValid = FALSE]
               ELSE Ended(p, "failed", "spawn"), {})
    /\ UNCHANGED <<now, files, marker, launches, emptyStart, relay, others>>

\* main.rs 28-32: the child terminates, wait returns and main calls exit
\* (SpecRelay has the steps in between)
ChildExit(p) ==
    /\ proc[p].pc = "waiting"
    /\ Step(p, Ended(p, "done", "none"), {})
    /\ UNCHANGED <<now, present, files, marker, launches, emptyStart, relay, others>>

(***************************************************************************)
(* cleanup.rs: the cleanup thread.                                         *)
(***************************************************************************)
\* the `for` loop moves to the next directory, or ends
NextDir(p) ==
    IF proc[p].sidx < Len(proc[p].cleanup_dirs)
    THEN [proc[p] EXCEPT !.cleanup = "probe", !.sidx = @ + 1, !.usedAtCheck = FALSE]
    ELSE [proc[p] EXCEPT !.cleanup = "finished", !.sidx = 1, !.cleanup_dirs = <<>>,
                         !.usedAtCheck = FALSE]

\* cleanup.rs 11-27: the test against current_dir and is_directory_used
Probe(p) ==
    /\ proc[p].cleanup = "probe"
    /\ LET dir == proc[p].cleanup_dirs[proc[p].sidx]
       IN  Step(p, IF ~is_cleanup_target(dir, proc[p].current_dir) THEN NextDir(p)
                   ELSE IF is_directory_used(DirPath(dir), ProcessExes)
                   THEN [NextDir(p) EXCEPT !.skipped = @ \cup {dir}]
                   ELSE [proc[p] EXCEPT
                           !.cleanup = "remove",
                           !.usedAtCheck = \E q \in Procs :
                               ChildRunning(q) /\ proc[q].current_dir = dir], {})
    /\ UNCHANGED <<now, present, files, marker, launches, emptyStart, relay, others>>

\* cleanup.rs 29-34: remove_dir_all of whatever directory the path names;
\* its error (the directory is gone already, or is no directory) is logged
\* only
Remove(p) ==
    /\ proc[p].cleanup = "remove"
    /\ LET dir == proc[p].cleanup_dirs[proc[p].sidx]
       IN  IF dir \in present
           THEN /\ present' = present \ {dir}
                /\ files' = [files EXCEPT ![dir] = {}]
                /\ marker' = [marker EXCEPT ![dir] = NoMarkers]
                /\ Step(p, [NextDir(p) EXCEPT !.removed = @ \cup {dir}], {dir})
                /\ UNCHANGED others
           ELSE IF dir \in others /\ is_dir(dir)
           THEN /\ others' = others \ {dir}
                /\ Step(p, [NextDir(p) EXCEPT !.removed = @ \cup {dir}], {dir})
                /\ UNCHANGED <<present, files, marker>>
           ELSE /\ Step(p, NextDir(p), {})
                /\ UNCHANGED <<present, files, marker, others>>
    /\ UNCHANGED <<now, launches, emptyStart, relay>>

\* mutant: a detection that failed counts as "not in use"
ProbeFails_removes(p) ==
    /\ proc[p].cleanup = "probe"
    /\ LET dir == proc[p].cleanup_dirs[proc[p].sidx]
       IN  /\ is_cleanup_target(dir, proc[p].current_dir)
           /\ Step(p, [proc[p] EXCEPT !.cleanup = "remove",
                                      !.undetected = @ \cup {dir}], {})
    /\ UNCHANGED <<now, present, files, marker, launches, emptyStart, relay, others>>

\* cleanup.rs 13-25: is_directory_used returns Err; the `else` arm logs and
\* continues with the next directory. (Both variants of is_directory_used in
\* cleanup.rs return Ok only; this is the arm for the Result of its signature.)
ProbeFails(p) ==
    /\ proc[p].cleanup = "probe"
    /\ LET dir == proc[p].cleanup_dirs[proc[p].sidx]
       IN  /\ is_cleanup_target(dir, proc[p].current_dir)
           /\ Step(p, [NextDir(p) EXCEPT !.undetected = @ \cup {dir}], {})
    /\ UNCHANGED <<now, present, files, marker, launches, emptyStart, relay, others>>

\* mutant: an error of remove_dir_all ends the cleanup thread
RemoveFails_stops(p, partial) ==
    /\ proc[p].cleanup = "remove"
    /\ proc[p].cleanup_dirs[proc[p].sidx] \in present
    /\ Step(p, [proc[p] EXCEPT !.cleanup = "finished", !.sidx = 1,
                               !.cleanup_dirs = <<>>, !.usedAtCheck = FALSE], {})
    /\ UNCHANGED <<now, present, files, marker, launches, emptyStart, relay, others>>

\* cleanup.rs 28-30: remove_dir_all fails on a directory that exists (no
\* permission, a file in use), after it removed nothing or some of the
\* contents; the error is logged and the loop goes on
RemoveFails(p, partial) ==
    /\ proc[p].cleanup = "remove"
    /\ LET dir == proc[p].cleanup_dirs[proc[p].sidx]
       IN  /\ dir \in present
           /\ files' = IF partial THEN [files EXCEPT ![dir] = {}] ELSE files
           /\ marker' = IF partial THEN [marker EXCEPT ![dir] = NoMarkers] ELSE marker
           /\ Step(p, NextDir(p), IF partial THEN {dir} ELSE {})
    /\ UNCHANGED <<now, present, launches, emptyStart, relay, others>>

\* the wall clock advances
Tick ==
    /\ now < ClockMax
    /\ now' = now + 1
    /\ UNCHANGED <<present, files, marker, launches, emptyStart, proc, relay, others>>

Next ==
    \/ Tick
    \/ \E p \in Procs : Start(p)
    \/ \E p \in Procs : List(p)
    \/ \E p \in Procs : Check(p)
    \/ \E p \in Procs, r \in 1..NumSuffixes : Generate(p, r)
    \/ \E p \in Procs : CreateDir(p)
    \/ \E p \in Procs, o \in ExtractOutcomes : Extract(p, o)
    \/ \E p \in Procs : Spawn(p)
    \/ \E p \in Procs : ChildExit(p)
    \/ \E p \in Procs : Probe(p)
    \/ \E p \in Procs : Remove(p)

Spec == Init /\ [][Next]_vars

(***************************************************************************)
(* The cleanup thread on its own: start_cleanup_thread called with any     *)
(* list and any current directory, beside another launcher whose child may *)
(* be running from any directory.                                          *)
(***************************************************************************)
\* longest cleanup_dirs list of SpecSweep
MaxStale == 2

StaleLists == UNION {[1..n -> Names] : n \in 0..MaxStale}

InitSweep ==
    /\ now = 1
    /\ present \in SUBSET Names
    /\ files = [d \in Names |-> IF d \in present THEN Artifacts ELSE {}]
    /\ marker = [d \in Names |-> IF d \in present THEN GoodMarkers ELSE NoMarkers]
    /\ launches = MaxLaunches
    /\ emptyStart = FALSE
    /\ \E dirs \in StaleLists, c \in Names, other \in present \cup {None} :
         proc = [p \in Procs |->
                   IF p = 1 THEN Return(ProcInit, dirs, c)
                   ELSE IF p = 2 /\ other # None
                   THEN [ProcInit EXCEPT !.pc = "waiting", !.spawned = TRUE,
                                         !.current_dir = other]
                   ELSE ProcInit]
    /\ relay = RelayOff
    /\ others = {}

NextSweep ==
    \/ \E p \in Procs : Probe(p)
    \/ \E p \in Procs : Remove(p)
    \/ \E p \in Procs : Spawn(p)
    \/ \E p \in Procs : ChildExit(p)

SpecSweep == InitSweep /\ [][NextSweep]_vars

(***************************************************************************)
(* The cleanup thread with failures: start_cleanup_thread called with a    *)
(* list as find_existing_extract_dirs makes it (sorted, no directory       *)
(* twice), where the detection and the removal may fail.                   *)
(***************************************************************************)
SortedLists == {SortDirs(S) : S \in {T \in SUBSET Names : Cardinality(T) <= MaxStale}}

InitFaulty ==
    /\ now = 1
    /\ present \in SUBSET Names
    /\ files = [d \in Names |-> IF d \in present THEN Artifacts ELSE {}]
    /\ marker = [d \in Names |-> IF d \in present THEN GoodMarkers ELSE NoMarkers]
    /\ launches = MaxLaunches
    /\ emptyStart = FALSE
    /\ \E dirs \in SortedLists, c \in Names, other \in present \cup {None} :
         proc = [p \in Procs |->
                   IF p = 1 THEN Return(ProcInit, dirs, c)
                   ELSE IF p = 2 /\ other # None
                   THEN [ProcInit EXCEPT !.pc = "waiting", !.spawned = TRUE,
                                         !.current_dir = other]
                   ELSE ProcInit]
    /\ relay = RelayOff
    /\ others = {}

NextFaulty ==
    \/ \E p \in Procs : Probe(p)
    \/ \E p \in Procs : ProbeFails(p)
    \/ \E p \in Procs : Remove(p)
    \/ \E p \in Procs, partial \in BOOLEAN : RemoveFails(p, partial)
    \/ \E p \in Procs : Spawn(p)
    \/ \E p \in Procs : ChildExit(p)

SpecFaulty == InitFaulty /\ [][NextFaulty]_vars

(***************************************************************************)
(* One launch on a root that holds generation directories and other        *)
(* entries, with the failures of the root and of the extraction.           *)
(***************************************************************************)
\* most generation directories and most other entries of an initial root
MaxEntries == 2

\* a step of main that fails abandons the launch: main returns the error
SetupErrors == {"root", "extract", "marker"}

InitSolo ==
    /\ now = 1
    /\ present \in {S \in SUBSET Names : Cardinality(S) <= MaxEntries}
    /\ files = [d \in Names |-> IF d \in present THEN Artifacts ELSE {}]
    /\ \E bad \in present \cup {None} :
         marker = [d \in Names |->
                     IF d \notin present THEN NoMarkers
                     ELSE IF d = bad THEN [GoodMarkers EXCEPT ![NODE_BINARY] = Missing]
                     ELSE GoodMarkers]
    /\ launches = MaxLaunches - 1
    /\ emptyStart = (present = {})
    /\ proc = [p \in Procs |-> ProcInit]
    /\ relay = RelayOff
    /\ others \in {S \in SUBSET OtherEntries : Cardinality(S) <= MaxEntries}

NextSolo ==
    \/ Tick
    \/ \E p \in Procs : Start(p)
    \/ \E p \in Procs : List(p)
    \/ \E p \in Procs : RootFails(p)
    \/ \E p \in Procs : Check(p)
    \/ \E p \in Procs, r \in 1..NumSuffixes : Generate(p, r)
    \/ \E p \in Procs : CreateDir(p)
    \/ \E p \in Procs, o \in ExtractOutcomes : Extract(p, o)
    \/ \E p \in Procs, written \in BOOLEAN : MarkerFails(p, written)
    \/ \E p \in Procs : Spawn(p)
    \/ \E p \in Procs : ChildExit(p)
    \/ \E p \in Procs : Probe(p)
    \/ \E p \in Procs : Remove(p)

SpecSolo == InitSolo /\ [][NextSolo]_vars

(***************************************************************************)
(* One launcher after spawn_garden: wait (node.rs), the signal relay       *)
(* (signal.rs, terminate.rs) and the exit code of main (main.rs).          *)
(*                                                                         *)
(* relay is a record:                                                      *)
(*   platform     "unix" or "windows", the cfg of the build                *)
(*   child_id     child.id()                                               *)
(*   main         position of the main thread                              *)
(*   parent       "running", "exited" (process::exit), "failed" (main      *)
(*                returned Err), "panicked", "killed" (default action of   *)
(*                an interrupt no handler caught)                          *)
(*   exit_code    the exit code of the launcher, once it has one           *)
(*   child        "running", "exited" (not yet waited for), "reaped"       *)
(*   status       the ExitStatus of the child: code() is Some or None      *)
(*   waiter       the thread of wait: "off", "waiting", "returned",        *)
(*                "panicked"; result is what it returned                   *)
(*   installed    the handler is installed                                 *)
(*   ignoring     SetConsoleCtrlHandler(None, true) is in force (windows)  *)
(*   queue        messages in the channel _C (windows)                     *)
(*   thread       the relay thread (windows): "off", "recv", "done"        *)
(*   pending      interrupts the ctrlc thread has not handled yet (unix)   *)
(*   signals      interrupts sent to the parent so far                     *)
(*   received     of these, received while the handler was installed       *)
(*   whileRunning of these, received while the child was running           *)
(*   forwards     calls of terminate::interrupt                            *)
(*   targets      the process ids interrupt was called with                *)
(*   delivered    interrupts that reached the running child                *)
(*   blocked      calls of console_ctrl_handler that wait in SEND.send      *)
(***************************************************************************)
\* interrupts sent to the parent in one behaviour
MaxSignals == 3

\* main.rs 14
EXIT_GARDEN_SEA_ERROR == 11

\* signal.rs 25: bounded(100)
ChannelCapacity == 100

Platforms == {"unix", "windows"}
ChildIds == {4001, 4002}
ExitCodes == {0, 42, 255}

\* ExitStatus::code(): Some(code), or None for a child a signal killed
SomeCode(c) == [some |-> TRUE, code |-> c]
NoCode == [some |-> FALSE, code |-> 0]

\* how a child may terminate: with a code, or (unix) by a signal
Terminations(platform) ==
    {SomeCode(c) : c \in ExitCodes} \cup (IF platform = "unix" THEN {NoCode} ELSE {})

\* mutant: no fallback, a child without exit code counts as a success
unwrap_or_zero(exit_code) == IF exit_code.some THEN exit_code.code ELSE 0

\* main.rs 32: exit_code.unwrap_or(EXIT_GARDEN_SEA_ERROR)
unwrap_or_error(exit_code) ==
    IF exit_code.some THEN exit_code.code ELSE EXIT_GARDEN_SEA_ERROR

\* std::process::exit: the status the parent of the launcher sees
\* (the low eight bits on unix)
exit(code, platform) == IF platform = "unix" THEN code % 256 ELSE code

\* mutant: the interrupt goes to process group 0, not to the child
interrupt_group(pid) == 0

\* terminate.rs 12-27: the process the interrupt is aimed at,
\* kill(Pid::from_raw(pid)) and AttachConsole(pid)
interrupt(pid) == pid

RelayStart(platform, child_id) ==
    [on |-> TRUE, platform |-> platform, child_id |-> child_id, main |-> "spawned",
     parent |-> "running", exit_code |-> NoCode, child |-> "running",
     status |-> NoCode, waiter |-> "off", result |-> NoCode, installed |-> FALSE,
     ignoring |-> FALSE, queue |-> 0, thread |-> "off", pending |-> 0,
     signals |-> 0, received |-> 0, whileRunning |-> 0, forwards |-> 0, targets |-> {},
     delivered |-> 0, blocked |-> 0]

\* spawn_garden has just returned the child
InitRelay ==
    /\ InitCache([dirs |-> {}, m |-> NoMarkers])
    /\ \E platform \in Platforms, child_id \in ChildIds :
         relay = RelayStart(platform, child_id)

ParentRunning == relay.on /\ relay.parent = "running"

cacheVars == <<now, present, files, marker, launches, emptyStart, proc, others>>

\* node.rs 110-120: wait spawns the thread that calls child.wait()
SpawnWaiter ==
    /\ ParentRunning /\ relay.main = "spawned"
    /\ relay' = [relay EXCEPT !.main = "install", !.waiter = "waiting"]
    /\ UNCHANGED cacheVars

\* node.rs 122, signal.rs 44-81: set_console_ctrl_handler(child_id).
\* When the installation fails, the unix variant panics in expect and the
\* windows variant returns the error, which wait and main pass on.
Install(ok) ==
    /\ ParentRunning /\ relay.main = "install"
    /\ relay' =
         IF ok
         THEN [relay EXCEPT !.main = "join", !.installed = TRUE,
                            !.thread = IF relay.platform = "windows" THEN "recv" ELSE "off"]
         ELSE IF relay.platform = "unix"
         THEN [relay EXCEPT !.main = "done", !.parent = "panicked",
                            !.exit_code = SomeCode(101)]
         ELSE [relay EXCEPT !.main = "done", !.parent = "failed",
                            !.exit_code = SomeCode(1)]
    /\ UNCHANGED cacheVars

\* the launcher receives an interrupt. Not installed: the default action
\* ends the launcher. unix: the ctrlc thread is woken once per interrupt.
\* windows: console_ctrl_handler (signal.rs 30-42) sends into the channel,
\* unless the process ignores Ctrl+C.
Signal ==
    /\ ParentRunning
    /\ relay.signals < MaxSignals
    /\ relay.installed /\ relay.platform = "windows" /\ ~relay.ignoring
          => relay.queue < ChannelCapacity
    /\ LET sent == [relay EXCEPT
                       !.signals = @ + 1,
                       !.whileRunning = IF relay.child = "running" THEN @ + 1 ELSE @]
       IN  relay' =
             IF ~relay.installed
             THEN [sent EXCEPT !.parent = "killed", !.main = "done"]
             ELSE IF relay.platform = "unix"
             THEN [sent EXCEPT !.received = @ + 1, !.pending = @ + 1]
             ELSE IF relay.ignoring
             THEN [sent EXCEPT !.received = @ + 1]
             ELSE [sent EXCEPT !.received = @ + 1, !.queue = @ + 1]
    /\ UNCHANGED cacheVars

\* terminate::interrupt(pid) is called: the attempt, and the child it reaches
Forward(r, pid) ==
    [r EXCEPT !.forwards = @ + 1,
              !.targets = @ \cup {interrupt(pid)},
              !.delivered = IF r.child = "running" /\ interrupt(pid) = r.child_id
                            THEN @ + 1 ELSE @]

\* signal.rs 70-77 (unix): the closure given to ctrlc::set_handler runs once
\* for an interrupt and stays installed
CtrlcHandler ==
    /\ ParentRunning
    /\ relay.platform = "unix" /\ relay.pending > 0
    /\ relay' = [Forward(relay, relay.child_id) EXCEPT !.pending = @ - 1]
    /\ UNCHANGED cacheVars

\* signal.rs 50-63 (windows): the relay thread takes one message, calls
\* interrupt and ends. terminate.rs 18-27: FreeConsole, AttachConsole(pid),
\* which fails once the child is gone, then SetConsoleCtrlHandler(None, true)
\* and GenerateConsoleCtrlEvent.
RelayRecv ==
    /\ ParentRunning
    /\ relay.platform = "windows" /\ relay.thread = "recv" /\ relay.queue > 0
    /\ relay' = [Forward(relay, relay.child_id) EXCEPT
                   !.queue = @ - 1,
                   !.thread = "done",
                   !.ignoring = (relay.child = "running")]
    /\ UNCHANGED cacheVars

\* the child terminates, by itself or after an interrupt
ChildTerminates(status) ==
    /\ relay.on /\ relay.child = "running"
    /\ status \in Terminations(relay.platform)
    /\ relay' = [relay EXCEPT !.child = "exited", !.status = status]
    /\ UNCHANGED cacheVars

\* node.rs 113-120: child.wait() returns in the waiter thread, which returns
\* result.code(); an error of child.wait() panics in expect
WaiterReturns(ok) ==
    /\ ParentRunning
    /\ relay.waiter = "waiting" /\ relay.child = "exited"
    /\ relay' = IF ok
                THEN [relay EXCEPT !.waiter = "returned", !.child = "reaped",
                                   !.result = relay.status]
                ELSE [relay EXCEPT !.waiter = "panicked"]
    /\ UNCHANGED cacheVars

\* node.rs 124-135, main.rs 28-32: join the waiter, return its result, and
\* exit(exit_code.unwrap_or(EXIT_GARDEN_SEA_ERROR)); a panicked waiter makes
\* join's expect panic
Join ==
    /\ ParentRunning /\ relay.main = "join"
    /\ relay.waiter \in {"returned", "panicked"}
    /\ relay' =
         IF relay.waiter = "returned"
         THEN [relay EXCEPT
                 !.main = "done", !.parent = "exited",
                 !.exit_code = SomeCode(exit(unwrap_or_error(relay.result), relay.platform))]
         ELSE [relay EXCEPT !.main = "done", !.parent = "panicked",
                            !.exit_code = SomeCode(101)]
    /\ UNCHANGED cacheVars

(***************************************************************************)
(* The console control handler (windows) once it is installed: control     *)
(* events of any type, as many as the channel holds and more.              *)
(***************************************************************************)
\* control events delivered in one behaviour
MaxEvents == 102

\* signal.rs 33-34: the types console_ctrl_handler handles, and one it does not
HandledCtrlTypes ==
    {"CTRL_C_EVENT", "CTRL_BREAK_EVENT", "CTRL_CLOSE_EVENT", "CTRL_SHUTDOWN_EVENT",
     "CTRL_LOGOFF_EVENT"}
CtrlTypes == HandledCtrlTypes \cup {"OTHER"}

\* set_console_ctrl_handler has returned Ok inside wait
InitConsole ==
    /\ InitCache([dirs |-> {}, m |-> NoMarkers])
    /\ \E child_id \in ChildIds :
         relay = [RelayStart("windows", child_id) EXCEPT
                    !.main = "join", !.waiter = "waiting",
                    !.installed = TRUE, !.thread = "recv"]

\* signal.rs 30-42: the system calls console_ctrl_handler(ctrl_type), each
\* call on a thread of its own. SEND.send on the bounded channel returns at
\* once while the channel has room and waits while it is full. Ctrl+C does
\* not reach the handler once SetConsoleCtrlHandler(None, true) is in force.
ConsoleCtrlEvent(ctrl_type) ==
    /\ ParentRunning /\ relay.installed /\ relay.platform = "windows"
    /\ relay.signals < MaxEvents
    /\ LET sent == [relay EXCEPT !.signals = @ + 1]
       IN  relay' =
             IF ctrl_type \notin HandledCtrlTypes THEN sent
             ELSE IF ctrl_type = "CTRL_C_EVENT" /\ relay.ignoring THEN sent
             ELSE IF relay.queue < ChannelCapacity
             THEN [sent EXCEPT !.received = @ + 1, !.queue = @ + 1]
             ELSE [sent EXCEPT !.received = @ + 1, !.blocked = @ + 1]
    /\ UNCHANGED cacheVars

\* a send that waited goes through when the channel has room again
HandlerResumes ==
    /\ ParentRunning
    /\ relay.blocked > 0 /\ relay.queue < ChannelCapacity
    /\ relay' = [relay EXCEPT !.blocked = @ - 1, !.queue = @ + 1]
    /\ UNCHANGED cacheVars

NextConsole ==
    \/ \E ctrl_type \in CtrlTypes : ConsoleCtrlEvent(ctrl_type)
    \/ HandlerResumes
    \/ RelayRecv

SpecConsole == InitConsole /\ [][NextConsole]_vars

NextRelay ==
    \/ SpawnWaiter
    \/ \E ok \in BOOLEAN : Install(ok)
    \/ Signal
    \/ CtrlcHandler
    \/ RelayRecv
    \/ \E status \in Terminations("unix") : ChildTerminates(status)
    \/ \E ok \in BOOLEAN : WaiterReturns(ok)
    \/ Join

SpecRelay == InitRelay /\ [][NextRelay]_vars

(***************************************************************************)
(* Properties of the extraction cache and the cleanup thread.              *)
(***************************************************************************)
Returned(p) == proc[p].pc = "returned"

\* C1 as claimed: under any interleaving with other instances and their
\* cleanup threads, a directory returned as current exists and holds the
\* expected digest marker of all four artifacts.
C1_ReturnedAlwaysValid ==
    \A p \in Procs : Returned(p) =>
        proc[p].current_dir \in present /\ AllValid(proc[p].current_dir)

\* C1 amended: a directory returned as current exists and holds the expected
\* digest marker of all four artifacts, unless another instance removed it or
\* wrote into it after this launch listed the root.
C1_ReturnedValidUnlessInterfered ==
    \A p \in Procs :
        Returned(p) /\ proc[p].current_dir \notin proc[p].interfered =>
            proc[p].current_dir \in present /\ AllValid(proc[p].current_dir)

\* a launch has returned a directory it extracted while another launcher runs
C1_Witness ==
    \E p, q \in Procs :
        /\ p # q /\ Returned(p) /\ Alive(q)
        /\ proc[p].current_dir = proc[p].extract_path
        /\ proc[p].current_dir \notin proc[p].interfered
        /\ AllValid(proc[p].current_dir)

\* C2 as claimed: the directory a running child was started from is never
\* deleted while the child runs.
C2_NeverDeletedWhileRunning ==
    \A p \in Procs : ChildRunning(p) => proc[p].current_dir \in present

\* C2 amended: a cleanup thread goes on to remove a directory only if no child
\* was running from it when is_directory_used probed it, and a directory
\* found in use is not removed by that sweep.
C2_RemovedOnlyIfUnusedAtCheck ==
    \A q \in Procs :
        /\ proc[q].cleanup = "remove" => ~proc[q].usedAtCheck
        /\ proc[q].skipped \cap proc[q].removed = {}

\* a cleanup thread passed over a directory a child is still running from
C2_Witness ==
    \E p, q \in Procs :
        /\ ChildRunning(p)
        /\ proc[p].current_dir \in proc[q].skipped
        /\ proc[p].current_dir \in present

\* the two launches of a behaviour that started on an empty root, each of
\* which listed the root only while no fully extracted directory was in it,
\* have both completed the selection
RacedFirstLaunches(p, q) ==
    /\ p # q
    /\ emptyStart /\ launches = 2
    /\ proc[p].pc \in {"returned", "waiting"}
    /\ proc[q].pc \in {"returned", "waiting"}
    /\ ~proc[p].sawFinished /\ ~proc[q].sawFinished

\* C3 as claimed: two launches that start on an empty root, each listing it
\* before the other has finished extracting, both end with a valid
\* generation, the two are distinct, and neither cleanup thread removes the
\* other's.
C3_RaceTolerance ==
    \A p, q \in Procs :
        RacedFirstLaunches(p, q)
        => /\ proc[p].current_dir # proc[q].current_dir
           /\ AllValid(proc[p].current_dir)
           /\ AllValid(proc[q].current_dir)
           /\ proc[q].current_dir \notin proc[p].removed

\* C3 amended: both end with a generation whose four markers are valid and
\* neither cleanup thread removes the other's; the two may be one directory.
C3_RaceLeavesBothValid ==
    \A p, q \in Procs :
        RacedFirstLaunches(p, q)
        => /\ proc[p].current_dir \in present
           /\ AllValid(proc[p].current_dir)
           /\ proc[q].current_dir \notin proc[p].removed

\* the two launches raced and hold two different valid generations
C3_Witness ==
    \E p, q \in Procs :
        /\ RacedFirstLaunches(p, q)
        /\ proc[p].current_dir # proc[q].current_dir
        /\ AllValid(proc[p].current_dir)
        /\ AllValid(proc[q].current_dir)

\* C4: when the last directory of the root holds four valid markers, the
\* launch returns exactly that directory and generates, creates and extracts
\* nothing (no other instance touching that directory meanwhile).
C4_ValidLatestIsReused ==
    \A p \in Procs :
        proc[p].listedValid /\ proc[p].lastListed \notin proc[p].interfered =>
            /\ proc[p].pc \in {"check", "returned"}
            /\ proc[p].extract_path = None
            /\ Returned(p) => proc[p].current_dir = proc[p].lastListed

\* a second run reuses the directory a first run extracted on an empty root
C4_Witness ==
    \E p \in Procs :
        /\ emptyStart /\ Returned(p) /\ proc[p].listedValid
        /\ proc[p].current_dir = proc[p].lastListed
        /\ proc[p].lastListed \notin proc[p].interfered

\* C5: when the validity check of the latest directory reports a missing or
\* wrong marker, the launch that returns has created a new directory, has
\* extracted all four artifacts into it, and has left the previous latest
\* directory in place, still as it was, and out of its cleanup list.
C5_InvalidLatestIsSuperseded ==
    \A p \in Procs :
        /\ ( Returned(p) /\ proc[p].needed
               /\ proc[p].latest_dir \notin proc[p].interfered )
           => /\ proc[p].current_dir = proc[p].extract_path
              /\ proc[p].current_dir # proc[p].latest_dir
              /\ proc[p].current_dir \notin proc[p].interfered
                    => AllValid(proc[p].current_dir)
              /\ proc[p].latest_dir \in present
              /\ ~AllValid(proc[p].latest_dir)
        /\ proc[p].needed => proc[p].latest_dir \notin proc[p].removed

\* a launch returned a new generation beside the stale one it found
C5_Witness ==
    \E p \in Procs :
        /\ Returned(p) /\ proc[p].needed
        /\ proc[p].latest_dir \notin proc[p].interfered
        /\ proc[p].latest_dir \in present
        /\ AllValid(proc[p].current_dir)

\* C6: the cleanup thread of a launch never removes the directory the launch
\* selected as current, whatever list it was given.
C6_CurrentNeverRemoved ==
    \A p \in Procs : proc[p].current_dir \notin proc[p].removed

\* the cleanup thread met the current directory in its list, passed over it
\* and is about to remove the next one
C6_Witness ==
    \E p \in Procs :
        /\ proc[p].cleanup = "remove"
        /\ proc[p].sidx > 1
        /\ proc[p].current_dir \in {proc[p].cleanup_dirs[i] : i \in 1..(proc[p].sidx - 1)}
        /\ proc[p].current_dir \in present

\* C10: an unreadable checksum file makes the generation invalid; it never
\* fails the launch.
C10_UnreadableNeverAborts ==
    \A p \in Procs : proc[p].err # "read_marker"

\* C11: when the latest directory fails the check and a new generation is
\* extracted, the list handed to start_cleanup_thread at the return holds the
\* superseded latest directory.
C11_StaleListHasSuperseded ==
    [][\A p \in Procs :
          ( proc[p].pc = "extract" /\ proc'[p].pc = "returned"
              /\ proc[p].latest_dir # None )
          => proc[p].latest_dir \in Range(proc'[p].cleanup_dirs)]_vars

\* C15: no two launches extract into one directory at the same time.
C15_NoSharedExtraction ==
    \A p, q \in Procs :
        p # q /\ proc[p].pc = "extract" /\ proc[q].pc = "extract"
        => proc[p].extract_path # proc[q].extract_path

\* C16: the order of the names is the order of creation: a directory a launch
\* is about to create sorts after every generation directory that exists.
C16_LaterSortsAfter ==
    \A q \in Procs :
        proc[q].pc = "create" /\ proc[q].extract_path \notin present
        => \A d \in present : PathLess(d, proc[q].extract_path)

(***************************************************************************)
(* Properties of the signal relay, the waiter and the exit code.           *)
(***************************************************************************)
\* nothing received is still on its way to terminate::interrupt
RelayIdle ==
    /\ relay.platform = "unix" => relay.pending = 0
    /\ relay.platform = "windows" => ~(relay.thread = "recv" /\ relay.queue > 0)

\* C7: once the handler is installed, every interrupt the launcher receives
\* results in one call of terminate::interrupt, on both platforms.
C7_EverySignalForwarded ==
    ParentRunning /\ relay.installed /\ RelayIdle => relay.forwards = relay.received

C9_ExitCodePropagated ==
    relay.on /\ relay.parent = "exited" =>
        relay.exit_code = IF relay.status.some THEN SomeCode(relay.status.code)
                          ELSE SomeCode(EXIT_GARDEN_SEA_ERROR)

\* a child a signal killed: the launcher has exited with the fallback code
C9_Witness ==
    /\ relay.on /\ relay.parent = "exited"
    /\ ~relay.status.some
    /\ relay.exit_code = SomeCode(EXIT_GARDEN_SEA_ERROR)

\* C12: when the installation of the handler fails, on either platform the
\* launcher ends with the error returned through wait and main; it does not
\* panic.
C12_InstallFailureSurfaced ==
    ( relay.on /\ relay.main = "done" /\ ~relay.installed
        /\ relay.parent # "killed" )
    => relay.parent = "failed"

\* C13: a failure of the wait on the child never panics the waiter thread
\* or the launcher.
C13_WaitNeverPanics ==
    relay.on /\ relay.installed =>
        relay.waiter # "panicked" /\ relay.parent # "panicked"

\* the status of a launcher whose main returned Err
FAILURE == 1

\* main.rs 16-21: main returns the error of extract_archives_if_needed and the
\* launcher ends with FAILURE; otherwise its status is not decided here
launcher_status(self) == IF self.pc = "failed" THEN SomeCode(FAILURE) ELSE NoCode

\* C14: a launch in which the root could not be created or listed, or an
\* archive could not be unpacked, or a checksum file could not be written,
\* has ended with the error: it has spawned no child, has started no
\* cleanup thread, and its exit status is not zero.
C14_SetupFailureAborts ==
    \A p \in Procs :
        proc[p].err \in SetupErrors =>
            /\ proc[p].pc = "failed"
            /\ ~proc[p].spawned
            /\ proc[p].cleanup = "off"
            /\ launcher_status(proc[p]).some
            /\ launcher_status(proc[p]).code # 0

\* a launch failed writing a checksum file after unpacking the archive
C14_Witness ==
    \E p \in Procs, d \in present :
        /\ proc[p].pc = "failed" /\ proc[p].err = "marker"
        /\ files[d] # {} /\ ~AllValid(d)

\* the paths a launch holds or has removed
PathsOf(self) ==
    ( {self.latest_dir, self.extract_path, self.current_dir}
        \cup Range(self.older_dirs) \cup Range(self.cleanup_dirs)
        \cup self.removed ) \ {None}

\* C20: every path a launch selects, extracts into, hands to the cleanup
\* thread or removes is a directory of the root with extension "r"; no
\* launch extracts into a path that names another entry; and the entries
\* that are no such directory stay as they are.
C20_OnlyTaggedDirectories ==
    /\ [](\A p \in Procs :
            /\ \A d \in PathsOf(proc[p]) :
                  /\ d \in Names \/ d.in_root
                  /\ is_dir(d)
                  /\ extension(FileName(d)) = GenerationTag
            /\ proc[p].extract_path # None
                  => \A e \in others :
                        e.in_root => FileName(e) # FileName(proc[p].extract_path))
    /\ [][others' = others]_vars

\* beside other entries in the root, a launch has removed a stale generation
\* and returned another one
C20_Witness ==
    \E p \in Procs :
        /\ Returned(p)
        /\ proc[p].removed # {}
        /\ \E e, f \in others : e.in_root /\ ~e.is_dir /\ f.in_root /\ f.is_dir

\* where the cleanup thread is: entry by entry, the test before the removal
SweepPosition(self) == 2 * self.sidx + (IF self.cleanup = "remove" THEN 1 ELSE 0)

\* C17: the cleanup thread goes on to remove a directory only after
\* is_directory_used returned Ok(false) for it; a directory found in use or
\* whose detection failed is not removed and stays in place, and the sweep
\* only moves forward in its list.
C17_RemovedOnlyAfterDetection ==
    /\ [](\A p \in Procs :
            /\ proc[p].cleanup = "remove" =>
                  LET dir == proc[p].cleanup_dirs[proc[p].sidx]
                  IN  /\ ~proc[p].usedAtCheck
                      /\ dir \notin proc[p].undetected
                      /\ dir \notin proc[p].skipped
            /\ proc[p].removed \cap (proc[p].skipped \cup proc[p].undetected) = {}
            /\ proc[p].skipped \subseteq present)
    /\ [][\A p \in Procs :
            ( /\ proc[p].cleanup \in {"probe", "remove"}
              /\ proc'[p].cleanup \in {"probe", "remove"}
              /\ <<proc'[p].cleanup, proc'[p].sidx>> # <<proc[p].cleanup, proc[p].sidx>> )
            => SweepPosition(proc'[p]) > SweepPosition(proc[p])]_vars

\* a sweep passed over a directory in use and removed another one
C17_Witness ==
    \E p \in Procs :
        /\ proc[p].skipped # {} /\ proc[p].skipped \subseteq present
        /\ proc[p].removed # {}

\* a step of the cleanup thread of p in which the detection or the removal
\* failed
CleanupFailure(p) ==
    /\ proc'[p].pc = proc[p].pc
    /\ \/ proc[p].cleanup = "probe" /\ proc'[p].undetected # proc[p].undetected
       \/ /\ proc[p].cleanup = "remove"
          /\ <<proc'[p].cleanup, proc'[p].sidx>> # <<proc[p].cleanup, proc[p].sidx>>
          /\ proc'[p].removed = proc[p].removed

\* C18: after a failed detection or a failed removal the cleanup thread is
\* at the next directory of its list, or has ended when there is none; the
\* main thread, the directory it returned and the status of the launcher are
\* as before.
C18_FailureNeverStopsSweep ==
    [][\A p \in Procs :
          CleanupFailure(p) =>
            /\ IF proc[p].sidx < Len(proc[p].cleanup_dirs)
               THEN /\ proc'[p].cleanup = "probe"
                    /\ proc'[p].sidx = proc[p].sidx + 1
                    /\ proc'[p].cleanup_dirs = proc[p].cleanup_dirs
               ELSE proc'[p].cleanup = "finished"
            /\ proc'[p].current_dir = proc[p].current_dir
            /\ proc'[p].err = proc[p].err
            /\ launcher_status(proc'[p]) = launcher_status(proc[p])]_vars

\* the removal of the first directory failed, it is still there, and the
\* cleanup thread is at the second
C18_Witness ==
    \E p \in Procs :
        /\ proc[p].cleanup \in {"probe", "remove"} /\ proc[p].sidx = 2
        /\ LET first == proc[p].cleanup_dirs[1]
           IN  /\ first # proc[p].current_dir
               /\ first \in present
               /\ first \notin proc[p].removed \cup proc[p].skipped \cup proc[p].undetected

\* C19: no call of console_ctrl_handler ever waits in the channel.
C19_HandlerNeverBlocks ==
    relay.on => relay.blocked = 0

\* C21: terminate::interrupt is never called once child.wait() has returned
\* in the waiter thread and the child is reaped.
C21_NoForwardAfterReap ==
    [][relay.on /\ relay'.forwards > relay.forwards => relay.child # "reaped"]_vars

\* C22: once a launch has returned a generation it created because the
\* candidate latest it listed was invalid, and nothing else touched the root
\* meanwhile, the next listing of the root by another launch selects that
\* new generation as its candidate latest (so it is reused and no further
\* directory is created).
C22_NextLaunchSelectsNew ==
    [][\A p, q \in Procs :
          (/\ p # q
           /\ Returned(p) /\ proc[p].needed /\ proc[p].latest_dir # None
           /\ proc[p].interfered = {}
           /\ proc[q].pc = "list" /\ proc'[q].pc \in {"check", "generate"})
          => proc'[q].latest_dir = proc[p].current_dir]_vars

\* C23: with any number of launchers and cleanup threads on one root, every
\* directory a cleanup thread has removed sorted strictly before the latest
\* directory of the listing of its launch, and a directory that sorts after
\* it is still in the root: the greatest generation directory the root ever
\* held is never removed.
C23_SweeperSparesGreatest ==
    \A p \in Procs : \A d \in proc[p].removed :
        /\ proc[p].latest_dir # None
        /\ PathLess(d, proc[p].latest_dir)
        /\ \E g \in present : PathLess(d, g)

\* two launchers are alive, the cleanup thread of one has removed a directory
\* and the root holds another launch's newer generation
C23_Witness ==
    \E p, q \in Procs :
        /\ p # q /\ Alive(q)
        /\ proc[p].removed # {}
        /\ proc[q].current_dir \in present
        /\ proc[q].current_dir # proc[p].current_dir

====
